---- MODULE Spec2Model ----
(***************************************************************************)
(* State-machine model of src/dino.py: the DinosaurGame application, its   *)
(* Dino and Cactus widgets and its Scoreboard.                             *)
(*                                                                         *)
(* One action per callback of the application: Tick is DinosaurGame.update *)
(* (the 30 Hz interval callback), OnKey(k) is DinosaurGame.on_key, which   *)
(* calls DinosaurGame.restart.  Callbacks run to completion on one event   *)
(* loop, so each is one atomic step.                                       *)
(*                                                                         *)
(* Widget positions are the widgets' offsets; a widget's region is the     *)
(* rectangle of its sprite at its offset.  Mounting and removing a widget  *)
(* take effect in the callback that asks for them.                         *)
(***************************************************************************)
EXTENDS Integers, Sequences, FiniteSets

\* ------------------------------------------------------------- bounds
\* Tick stops firing once time reaches MaxTime (the program's counter is
\* unbounded).
MaxTime == 150

\* The same bound for the specification with fairness: long enough for a
\* session without a jump to meet the first cactus.
LiveMaxTime == 80

\* ---------------------------------------------------------- constants
DINO_X == 3
GROUND_Y == 10
APEX_Y == 0
DINO_W == 7
DINO_H == 4
CACTUS_SPAWN_X == 80
CACTUS_SPAWN_Y == 10
CACTUS_W == 6
CACTUS_H == 4
cactus_spawn_rate == 60
SCORE_PERIOD == 3

\* event.key values: the two jump keys and one key that is neither.
Keys == {"up", "space", "left"}
JumpKeys == {"up", "space"}
\* self.key = None
NoKey == "none"

\* Dino.animations: sprite indices per state (Python lists, 0-based).
animations == [running |-> <<0, 0, 0, 1, 1, 1>>, jumping |-> <<2>>]

\* animations[state][i] with Python's 0-based index i.
SpriteOf(state, i) == animations[state][i + 1]

VARIABLES
    time,           \* DinosaurGame.time
    game_over,      \* DinosaurGame.game_over
    high_score,     \* DinosaurGame.high_score
    key,            \* DinosaurGame.key
    paused,         \* whether the interval timer DinosaurGame.tick is paused
    sb_score,       \* Scoreboard.score of the mounted scoreboard
    sb_high_score,  \* Scoreboard.high_score of the mounted scoreboard
    dino,           \* the mounted Dino: state, dy, offset.y, animation_index, sprite
    cacti,          \* the mounted Cactus widgets, in DOM (mount) order
    banners,        \* number of GameOver widgets mounted in the desert
    jumpSeen,       \* history: a tick of this session has read a jump key
    airTicks,       \* history: ticks completed since the current jump began
    lastKey         \* history: the key the latest tick of this session read

vars == <<time, game_over, high_score, key, paused, sb_score, sb_high_score,
          dino, cacti, banners, jumpSeen, airTicks, lastKey>>

\* ------------------------------------------------------------ widgets
\* Dino(): state "running", sprite DINO_SPRITES[0], dy 0, animation_index 0,
\* offset (3, 10).
NewDino ==
    [state |-> "running", dy |-> 0, y |-> GROUND_Y, animation_index |-> 0,
     sprite |-> 0]

\* Cactus(): offset (80, 10).  age is a history field: the number of ticks
\* in which the cactus has been advanced.
NewCactus == [x |-> CACTUS_SPAWN_X, y |-> CACTUS_SPAWN_Y, age |-> 0]

\* A region: the cells [x, x2) x [y, y2).
Region(x, y, w, h) == [x |-> x, y |-> y, x2 |-> x + w, y2 |-> y + h]

DinoRegion(d) == Region(DINO_X, d.y, DINO_W, DINO_H)

CactusRegion(c) == Region(c.x, c.y, CACTUS_W, CACTUS_H)

\* Region.overlaps that also counts rectangles that only touch.
Overlaps_Touching(a, b) ==
    /\ a.x <= b.x2 /\ b.x <= a.x2
    /\ a.y <= b.y2 /\ b.y <= a.y2

\* Region.overlaps: the two rectangles share a cell.
Overlaps(a, b) ==
    /\ a.x < b.x2 /\ b.x < a.x2
    /\ a.y < b.y2 /\ b.y < a.y2

\* ---------------------------------------------------------------- Dino
\* Assigning Dino.state: the reactive variable calls watch_state when the
\* value changes.  watch_state resets the animation and sets dy.
SetState(d, s) ==
    IF d.state = s
    THEN d
    ELSE [d EXCEPT !.state = s,
                   !.animation_index = 0,
                   !.sprite = SpriteOf(s, 0),
                   !.dy = IF s = "jumping" THEN -1 ELSE 0]

\* Dino.update with the landing test made on the offset alone.
DinoUpdate_LandOnGround(d) ==
    IF d.state = "running"
    THEN LET i == (d.animation_index + 1) % Len(animations[d.state])
         IN  [d EXCEPT !.animation_index = i, !.sprite = SpriteOf(d.state, i)]
    ELSE LET d1 == IF d.y = GROUND_Y
                   THEN SetState(d, "running")
                   ELSE IF d.dy < 0 /\ d.y = APEX_Y
                        THEN [d EXCEPT !.dy = 1]
                        ELSE d
         IN  [d1 EXCEPT !.y = d1.y + d1.dy]

\* Dino.update without the turn at the apex.
DinoUpdate_NoApex(d) ==
    IF d.state = "running"
    THEN LET i == (d.animation_index + 1) % Len(animations[d.state])
         IN  [d EXCEPT !.animation_index = i, !.sprite = SpriteOf(d.state, i)]
    ELSE LET d1 == IF d.dy > 0 /\ d.y = GROUND_Y
                   THEN SetState(d, "running")
                   ELSE d
         IN  [d1 EXCEPT !.y = d1.y + d1.dy]

\* Dino.update
DinoUpdate(d) ==
    IF d.state = "running"
    THEN LET i == (d.animation_index + 1) % Len(animations[d.state])
         IN  [d EXCEPT !.animation_index = i, !.sprite = SpriteOf(d.state, i)]
    ELSE LET d1 == IF d.dy > 0 /\ d.y = GROUND_Y
                   THEN SetState(d, "running")
                   ELSE IF d.dy < 0 /\ d.y = APEX_Y
                        THEN [d EXCEPT !.dy = 1]
                        ELSE d
         IN  [d1 EXCEPT !.y = d1.y + d1.dy]

\* Player controls that start a jump on any latched key.
PlayerControls_AnyKey(d, k) ==
    IF k # NoKey /\ ~(d.state = "jumping")
    THEN SetState(d, "jumping")
    ELSE d

\* Player controls without the state guard: a jump key sets the upward
\* velocity whatever the dino is doing.
PlayerControls_NoGuard(d, k) ==
    IF k \in JumpKeys
    THEN [d EXCEPT !.state = "jumping", !.animation_index = 0,
                   !.sprite = SpriteOf("jumping", 0), !.dy = -1]
    ELSE d

\* "Player controls" of DinosaurGame.update: a latched jump key starts a
\* jump unless the dino is jumping.
PlayerControls(d, k) ==
    IF k \in JumpKeys /\ ~(d.state = "jumping")
    THEN SetState(d, "jumping")
    ELSE d

\* The dino's part of a tick with the player controls after dino.update().
DinoTick_UpdateFirst(d, k) == PlayerControls(DinoUpdate(d), k)

\* The dino's part of DinosaurGame.update: the player controls, then
\* dino.update().
DinoTick(d, k) == DinoUpdate(PlayerControls(d, k))

\* -------------------------------------------------------------- Cactus
\* Cactus.update that removes the cactus one column early.
CactusUpdate_RemoveAtZero(c) ==
    IF c.x <= 0
    THEN <<>>
    ELSE <<[c EXCEPT !.x = c.x - 1, !.age = c.age + 1]>>

\* Cactus.update that never removes the cactus.
CactusUpdate_NoRemove(c) ==
    <<[c EXCEPT !.x = c.x - 1, !.age = c.age + 1]>>

\* Cactus.update: the cacti that remain of c, none when it removes itself.
CactusUpdate(c) ==
    IF c.x < 0
    THEN <<>>
    ELSE <<[c EXCEPT !.x = c.x - 1, !.age = c.age + 1]>>

\* Spawning that tests the time of the previous tick.
SpawnCactus_OldTime(t, cs) ==
    IF (t - 1) % cactus_spawn_rate = 0 THEN Append(cs, NewCactus) ELSE cs

\* "Spawn cactus" of DinosaurGame.update at time t.
SpawnCactus(t, cs) ==
    IF t % cactus_spawn_rate = 0 THEN Append(cs, NewCactus) ELSE cs

\* The loop body without the call of self.tick.pause().
CactusStep_NoPause(r, c, d, hs) ==
    IF Overlaps(CactusRegion(c), DinoRegion(d))
    THEN [cacti |-> Append(r.cacti, c),
          paused |-> r.paused,
          game_over |-> TRUE,
          sb_high_score |-> hs,
          banners |-> r.banners + 1]
    ELSE [r EXCEPT !.cacti = r.cacti \o CactusUpdate(c)]

\* The loop body with the cactus advanced before the collision test.
CactusStep_AdvanceFirst(r, c, d, hs) ==
    LET moved == CactusUpdate(c)
    IN  IF moved # <<>> /\ Overlaps(CactusRegion(moved[1]), DinoRegion(d))
        THEN [cacti |-> r.cacti \o moved,
              paused |-> TRUE,
              game_over |-> TRUE,
              sb_high_score |-> hs,
              banners |-> r.banners + 1]
        ELSE [r EXCEPT !.cacti = r.cacti \o moved]

\* The loop body without the assignment of self.game_over.
CactusStep_NoGameOver(r, c, d, hs) ==
    IF Overlaps(CactusRegion(c), DinoRegion(d))
    THEN [cacti |-> Append(r.cacti, c),
          paused |-> TRUE,
          game_over |-> r.game_over,
          sb_high_score |-> hs,
          banners |-> r.banners + 1]
    ELSE [r EXCEPT !.cacti = r.cacti \o CactusUpdate(c)]

\* One pass of the loop body of "Update cacti and check collision" for
\* cactus c, on the loop's running result r.
CactusStep(r, c, d, hs) ==
    IF Overlaps(CactusRegion(c), DinoRegion(d))
    THEN [cacti |-> Append(r.cacti, c),
          paused |-> TRUE,
          game_over |-> TRUE,
          sb_high_score |-> hs,
          banners |-> r.banners + 1]
    ELSE [r EXCEPT !.cacti = r.cacti \o CactusUpdate(c)]

\* The loop over the queried cacti cs, from index i on.
RECURSIVE CactiLoop(_, _, _, _, _)
CactiLoop(r, cs, i, d, hs) ==
    IF i > Len(cs)
    THEN r
    ELSE CactiLoop(CactusStep(r, cs[i], d, hs), cs, i + 1, d, hs)

\* ------------------------------------------------------------- scoring
\* Scoring that tests the time of the previous tick.
ScoreAt_OldTime(t, s) == IF (t - 1) % SCORE_PERIOD = 0 THEN s + 1 ELSE s

\* "Score" of DinosaurGame.update at time t: the scoreboard's score.
ScoreAt(t, s) == IF t % SCORE_PERIOD = 0 THEN s + 1 ELSE s

\* High score that follows the score without comparing.
HighScoreAt_NoCompare(t, s, hs) ==
    IF t % SCORE_PERIOD = 0 THEN s + 1 ELSE hs

\* "Score" of DinosaurGame.update at time t: the high score, given the
\* score s before the tick.
HighScoreAt(t, s, hs) ==
    IF t % SCORE_PERIOD = 0 /\ s + 1 > hs THEN s + 1 ELSE hs

\* Reset of the key only when the tick consumed it.
ResetKey_IfJump(k) == IF k \in JumpKeys THEN NoKey ELSE k

\* "Reset key" of DinosaurGame.update.
ResetKey(k) == NoKey

\* -------------------------------------------------------------- actions
Init ==
    /\ time = 0
    /\ game_over = FALSE
    /\ high_score = 0
    /\ key = NoKey
    /\ paused = FALSE
    /\ sb_score = 0
    /\ sb_high_score = 0
    /\ dino = NewDino
    /\ cacti = <<NewCactus>>
    /\ banners = 0
    /\ jumpSeen = FALSE
    /\ airTicks = 0
    /\ lastKey = NoKey

\* DinosaurGame.update, run by the interval timer while it is not paused,
\* in sessions of at most bound ticks.
TickUpTo(bound) ==
    /\ ~paused
    /\ time < bound
    /\ LET t  == time + 1
           hs == HighScoreAt(t, sb_score, high_score)
           d2 == DinoTick(dino, key)
           cs == SpawnCactus(t, cacti)
           r0 == [cacti |-> <<>>, paused |-> paused, game_over |-> game_over,
                  sb_high_score |-> sb_high_score, banners |-> banners]
           r  == CactiLoop(r0, cs, 1, d2, hs)
       IN  /\ time' = t
           /\ sb_score' = ScoreAt(t, sb_score)
           /\ high_score' = hs
           /\ dino' = d2
           /\ cacti' = r.cacti
           /\ paused' = r.paused
           /\ game_over' = r.game_over
           /\ sb_high_score' = r.sb_high_score
           /\ banners' = r.banners
           /\ key' = ResetKey(key)
           /\ jumpSeen' = (jumpSeen \/ key \in JumpKeys)
           /\ airTicks' = IF d2.state = "jumping"
                          THEN (IF dino.state = "jumping" THEN airTicks + 1 ELSE 1)
                          ELSE 0
           /\ lastKey' = key

\* DinosaurGame.update in sessions of at most MaxTime ticks.
Tick == TickUpTo(MaxTime)

\* restart without the reset of self.time.
Restart_KeepTime(k) ==
    /\ sb_score' = 0
    /\ sb_high_score' = high_score
    /\ dino' = NewDino
    /\ cacti' = <<NewCactus>>
    /\ banners' = 0
    /\ game_over' = FALSE
    /\ paused' = FALSE
    /\ key' = k
    /\ jumpSeen' = FALSE
    /\ airTicks' = 0
    /\ lastKey' = NoKey
    /\ UNCHANGED <<high_score, time>>

\* DinosaurGame.restart: the state it leaves, given the key on_key latched.
Restart(k) ==
    /\ sb_score' = 0
    /\ sb_high_score' = high_score
    /\ dino' = NewDino
    /\ cacti' = <<NewCactus>>
    /\ banners' = 0
    /\ time' = 0
    /\ game_over' = FALSE
    /\ paused' = FALSE
    /\ key' = k
    /\ jumpSeen' = FALSE
    /\ airTicks' = 0
    /\ lastKey' = NoKey
    /\ UNCHANGED high_score

\* on_key that restarts on a jump key whether or not the game is over.
OnKey_RestartAnyTime(k) ==
    IF k \in JumpKeys
    THEN Restart(k)
    ELSE /\ key' = k
         /\ UNCHANGED <<time, game_over, high_score, paused, sb_score,
                        sb_high_score, dino, cacti, banners, jumpSeen, airTicks,
                        lastKey>>

\* DinosaurGame.on_key for event.key = k.
OnKey(k) ==
    IF game_over /\ k \in JumpKeys
    THEN Restart(k)
    ELSE /\ key' = k
         /\ UNCHANGED <<time, game_over, high_score, paused, sb_score,
                        sb_high_score, dino, cacti, banners, jumpSeen, airTicks,
                        lastKey>>

KeyPress == \E k \in Keys : OnKey(k)

Next == Tick \/ KeyPress

Spec == Init /\ [][Next]_vars

\* The interval timer fires the callback every 1/30 s while it is not
\* paused: a tick that stays enabled is eventually run.
LiveTick == TickUpTo(LiveMaxTime)

LiveNext == LiveTick \/ KeyPress

LiveSpec == Init /\ [][LiveNext]_vars /\ WF_vars(LiveTick)

\* ---------------------------------------------------------- step kinds
\* A step of Tick: the only step that increments time.
TickStep == time' = time + 1

\* A step of restart: the only step that clears game_over.
RestartStep == game_over /\ ~game_over'

\* The cacti the loop of the tick starting in this state visits.
QueriedCacti == SpawnCactus(time + 1, cacti)

\* Some visited cactus overlaps the dino as the dino is after its update.
CollisionInTick ==
    \E i \in 1..Len(QueriedCacti) :
        Overlaps(CactusRegion(QueriedCacti[i]), DinoRegion(dino'))

TypeOK ==
    /\ time \in 0..MaxTime
    /\ game_over \in BOOLEAN
    /\ paused \in BOOLEAN
    /\ key \in Keys \cup {NoKey}
    /\ dino.state \in {"running", "jumping"}

\* --------------------------------------------------------------- claims
\* C1: a tick in which a visited cactus overlaps the dino ends with
\* game_over set and the timer paused; while game_over stays set no tick
\* runs, and time and the score keep their values.
C1_CollisionFreezes ==
    [][/\ (TickStep /\ CollisionInTick) => (game_over' /\ paused')
       /\ game_over => ~TickStep
       /\ (game_over /\ game_over') =>
              (time' = time /\ sb_score' = sb_score /\ paused')]_vars

\* C1 witness: the game is over on a cactus that overlaps the dino, and a
\* key press that does not restart has arrived since.
C1_Witness ==
    /\ game_over /\ paused /\ key = "left"
    /\ \E i \in 1..Len(cacti) : Overlaps(CactusRegion(cacti[i]), DinoRegion(dino))

\* The height of the jump arc after n ticks in the air, n in 1..20.
ArcY(n) == IF n <= 10 THEN GROUND_Y - n ELSE n - 10

\* C2: a jump key read by a tick while the dino runs at y = 10 starts a
\* jump; the dino then rises one row a tick for 10 ticks to y = 0, falls
\* one row a tick for 10 ticks back to y = 10, and the tick after those 20
\* returns it to running with dy = 0.
C2_JumpArc ==
    /\ [](dino.state = "jumping" =>
            /\ airTicks \in 1..20
            /\ dino.y = ArcY(airTicks)
            /\ dino.dy = IF airTicks <= 10 THEN -1 ELSE 1)
    /\ [][TickStep =>
            /\ (dino.state = "running" /\ dino.y = GROUND_Y /\ key \in JumpKeys) =>
                   (dino'.state = "jumping" /\ airTicks' = 1)
            /\ (dino.state = "jumping" /\ airTicks < 20) =>
                   (dino'.state = "jumping" /\ airTicks' = airTicks + 1)
            /\ (dino.state = "jumping" /\ airTicks = 20) =>
                   (dino'.state = "running" /\ dino'.dy = 0 /\ dino'.y = GROUND_Y)]_vars

\* C2 witness: the dino has landed after a whole arc: the latest tick found
\* it in the 20th airborne tick and returned it to running.
C2_Witness ==
    /\ dino.state = "running" /\ dino.y = GROUND_Y /\ dino.dy = 0
    /\ dino.animation_index = 0 /\ jumpSeen /\ time >= 21 /\ lastKey = NoKey
    /\ ~game_over

\* C3: as long as no tick of the session has read a jump key, the dino is
\* running at y = 10.
C3_NoJumpStaysGrounded ==
    ~jumpSeen => (dino.state = "running" /\ dino.y = GROUND_Y /\ dino.dy = 0)

\* C3 witness: ticks have run, the latest read a key that is no jump key,
\* and no tick has read a jump key.
C3_Witness == ~jumpSeen /\ time >= 10 /\ lastKey = "left"

\* C4: a tick that finds the dino jumping moves it as Dino.update alone
\* does, whatever key is latched.
C4_JumpKeyIgnoredWhileJumping ==
    [][(TickStep /\ dino.state = "jumping") =>
          /\ dino' = DinoUpdate(dino)
          /\ (airTicks < 20 => dino'.y = ArcY(airTicks + 1))]_vars

\* C4 witness: the latest tick read a jump key while the dino was already
\* jumping.
C4_Witness == dino.state = "jumping" /\ airTicks >= 2 /\ lastKey \in JumpKeys

\* C5: the score is floor(time / 3): a tick adds 1 exactly when the new
\* time is a multiple of 3, and the score keeps its value while game_over
\* stays set.
C5_ScoreEveryThirdTick ==
    /\ [](sb_score = time \div 3)
    /\ [][/\ TickStep =>
               sb_score' = sb_score + (IF time' % 3 = 0 THEN 1 ELSE 0)
          /\ (game_over /\ game_over') => sb_score' = sb_score]_vars

\* C5 witness: the game is over after 72 ticks with score 24 and a key
\* press has arrived since.
C5_Witness == game_over /\ time = 72 /\ sb_score = 24 /\ key = "left"

\* C6: the high score never decreases, is at least the score, changes only
\* to the value the score takes in the same step, and is kept by a restart.
C6_HighScoreMonotone ==
    /\ [](high_score >= sb_score)
    /\ [][/\ high_score' >= high_score
          /\ high_score' # high_score => high_score' = sb_score'
          /\ RestartStep => high_score' = high_score]_vars

\* C6 witness: a session after a restart has scored, below the high score
\* carried over from an earlier session.
C6_Witness == ~game_over /\ sb_score > 0 /\ high_score > sb_score

\* C7: a restart leaves time 0, score 0, game_over false, the timer
\* running, one cactus at (80, 10), the dino running at y = 10 with dy = 0,
\* and the high score as it was.
C7_RestartResets ==
    [][RestartStep =>
          /\ time' = 0 /\ sb_score' = 0 /\ ~game_over' /\ ~paused'
          /\ Len(cacti') = 1
          /\ cacti'[1].x = CACTUS_SPAWN_X /\ cacti'[1].y = CACTUS_SPAWN_Y
          /\ dino'.state = "running" /\ dino'.y = GROUND_Y /\ dino'.dy = 0
          /\ high_score' = high_score]_vars

\* C7 witness: the state right after a restart: no tick has run, and the
\* high score of the earlier session is kept.
C7_Witness ==
    /\ time = 0 /\ sb_score = 0 /\ ~game_over /\ ~paused /\ high_score > 0
    /\ key \in JumpKeys /\ cacti = <<NewCactus>> /\ dino = NewDino

\* What a tick reads, as it is at session start.
TickInputsInitial ==
    /\ time = 0 /\ sb_score = 0 /\ ~game_over /\ key = NoKey
    /\ dino = NewDino /\ cacti = <<NewCactus>>

\* C8: a restart leaves everything a tick reads (time, score, game_over,
\* the latched key, the dino, the cacti) as it is at session start.
C8_RestartIsInitial == [][RestartStep => TickInputsInitial']_vars

\* C9: every tick ends with the latched key cleared, whatever the key was
\* and whether or not it started a jump.
C9_LatchClearedEveryTick == [][TickStep => key' = NoKey]_vars

\* C9 witness: the latest tick read a key it did not consume (a key that
\* is no jump key, or a jump key while jumping) and the latch is clear.
C9_Witness ==
    /\ key = NoKey /\ lastKey = "left" /\ time >= 2
    /\ dino.state = "jumping" /\ airTicks >= 2

\* C10 as stated: a cactus is removed once it has been advanced 81 times,
\* so no mounted cactus has been advanced 81 times.
C10_RemovedAfter81 == \A i \in 1..Len(cacti) : cacti[i].age < 81

\* C10 amended: a cactus advances one column in every tick in which it
\* does not overlap the dino, is at x = -1 after 81 such ticks, and is
\* removed by the next such tick (the 82nd).
C10_RemovedOn82nd ==
    /\ [](\A i \in 1..Len(cacti) :
            /\ cacti[i].x = CACTUS_SPAWN_X - cacti[i].age
            /\ cacti[i].age \in 0..81)
    /\ [][TickStep =>
            \A i \in 1..Len(QueriedCacti) :
                LET c == QueriedCacti[i]
                IN  ~Overlaps(CactusRegion(c), DinoRegion(dino')) =>
                        IF c.age < 81
                        THEN \E j \in 1..Len(cacti') :
                                 /\ cacti'[j].age = c.age + 1
                                 /\ cacti'[j].x = c.x - 1
                                 /\ cacti'[j].y = c.y
                        ELSE \A j \in 1..Len(cacti') :
                                 cacti'[j].age \notin {c.age, c.age + 1}]_vars

\* C10 witness: the 82nd tick has removed the first cactus without a
\* collision; the cactus spawned at tick 60 is the only one mounted.
C10_Witness ==
    /\ time = 82 /\ ~game_over
    /\ Len(cacti) = 1 /\ cacti[1].age = 23 /\ cacti[1].x = 57

\* The index in QueriedCacti of the first cactus that overlaps the dino as
\* the dino is after its update (0 when none does).
FirstHit ==
    LET hits == {i \in 1..Len(QueriedCacti) :
                    Overlaps(CactusRegion(QueriedCacti[i]), DinoRegion(dino'))}
    IN  IF hits = {} THEN 0
        ELSE CHOOSE i \in hits : \A j \in hits : i <= j

\* C11: in a tick that detects a collision, the cacti that come after the
\* first colliding one in the pass are left as they were (neither advanced
\* nor removed), and one game-over banner is mounted.
C11_FirstCollisionWins ==
    [][(TickStep /\ CollisionInTick) =>
          /\ banners' = banners + 1
          /\ \A j \in (FirstHit + 1)..Len(QueriedCacti) :
                 \E k \in 1..Len(cacti') : cacti'[k] = QueriedCacti[j]]_vars

\* A key press that is no jump key: the latch takes a new value that is
\* neither a jump key nor the cleared latch.
OtherKeyStep == key' # key /\ key' \in Keys \ JumpKeys

\* What a tick makes of the latch: whether it holds a jump key.
JumpLatched == key \in JumpKeys

\* C12: a press of a key other than up and space changes nothing that a
\* tick acts on: a latched jump stays latched, and player, cacti, scores,
\* time and game_over are left as they were.
C12_OtherKeysIgnored ==
    [][OtherKeyStep =>
          /\ JumpLatched' = JumpLatched
          /\ UNCHANGED <<time, game_over, high_score, paused, sb_score,
                         sb_high_score, dino, cacti, banners>>]_vars

\* A step that resets the session: time goes back to 0 after ticks have run.
ResetStep == time > 0 /\ time' = 0

\* C13: the session is reset exactly by a press of up or space while
\* game_over is set.  A step taken while game_over is not set and that is
\* no tick leaves time, scores, dino, cacti and game_over as they were; a
\* press of another key while game_over is set leaves game_over set, the
\* timer paused and the session as it was.
C13_RestartOnlyWhenGameOver ==
    [][/\ ResetStep <=> (game_over /\ key' \in JumpKeys)
       /\ ResetStep <=> RestartStep
       /\ (~game_over /\ ~TickStep) =>
              UNCHANGED <<time, sb_score, high_score, dino, cacti, game_over,
                          paused>>
       /\ (game_over /\ key' \notin JumpKeys) =>
              (game_over' /\ paused' /\
               UNCHANGED <<time, sb_score, high_score, dino, cacti>>)]_vars

\* C13 witness: a jump key was pressed in the middle of a running session
\* and is latched; the session goes on with an earlier session's high score.
C13_Witness ==
    /\ ~game_over /\ ~paused /\ key \in JumpKeys /\ time >= 30
    /\ high_score > sb_score

\* The cacti a tick has created: those advanced once that were not mounted
\* before the tick (a cactus is advanced in the tick that creates it).
CreatedInTick ==
    IF \E i \in 1..Len(cacti) : cacti[i].age = 0
    THEN {}
    ELSE {j \in 1..Len(cacti') : cacti'[j].age = 1}

\* C14: a tick whose new time is a multiple of 60 creates exactly one
\* cactus, at (80, 10) (it is at x = 79 once advanced in that tick), however
\* many are mounted; any other tick creates none.
C14_SpawnEvery60 ==
    [][TickStep =>
          /\ Cardinality(CreatedInTick) = (IF time' % 60 = 0 THEN 1 ELSE 0)
          /\ Len(cacti') - Len(cacti) \in
                 (IF time' % 60 = 0 THEN {0, 1} ELSE {-1, 0})
          /\ \A j \in CreatedInTick :
                 /\ cacti'[j].x = 80 - 1 /\ cacti'[j].y = 10
                 /\ j = Len(cacti')]_vars

\* C14 witness: the tick at time 120 has created a cactus beside the one
\* created at time 60.
C14_Witness ==
    /\ time = 120 /\ Len(cacti) = 2
    /\ cacti[1].age = 61 /\ cacti[2].age = 1 /\ cacti[2].x = 79

\* C15: a tick ends in game over exactly when some cactus, where it was
\* before the tick, overlaps the dino where it is after its update in the
\* tick; such a cactus is still mounted after the tick, where it was.
C15_TestBeforeAdvance ==
    [][TickStep =>
          /\ game_over' <=>
                 \E i \in 1..Len(QueriedCacti) :
                     Overlaps(CactusRegion(QueriedCacti[i]), DinoRegion(dino'))
          /\ \A i \in 1..Len(QueriedCacti) :
                 Overlaps(CactusRegion(QueriedCacti[i]), DinoRegion(dino')) =>
                     \E k \in 1..Len(cacti') : cacti'[k] = QueriedCacti[i]]_vars

\* C15 witness: the dino came down onto a cactus: it is at y = 7 after its
\* update, falling, the game is over, and the cactus is where it was.
C15_Witness ==
    /\ game_over /\ dino.state = "jumping" /\ dino.dy = 1 /\ dino.y = 7
    /\ \E i \in 1..Len(cacti) :
           /\ Overlaps(CactusRegion(cacti[i]), DinoRegion(dino))
           /\ cacti[i].x = CACTUS_SPAWN_X - cacti[i].age

\* C16: the dino running has dy = 0 and y = 10; the dino jumping has dy -1
\* or +1; y is always within 0..10.
C16_DinoInvariant ==
    /\ dino.state = "running" => (dino.dy = 0 /\ dino.y = 10)
    /\ dino.state = "jumping" => dino.dy \in {-1, 1}
    /\ dino.y \in 0..10

\* C16 witness: the dino at the apex, still rising.
C16_Witness == dino.state = "jumping" /\ dino.y = 0 /\ dino.dy = -1

\* C17: every mounted cactus has y = 10 and x within -1..80, and at most 2
\* cacti are mounted.
C17_CactiInvariant ==
    /\ Len(cacti) <= 2
    /\ \A i \in 1..Len(cacti) : cacti[i].y = 10 /\ cacti[i].x \in -1..80

\* C17 witness: two cacti mounted, the older one at x = -1.
C17_Witness == Len(cacti) = 2 /\ cacti[1].x = -1 /\ ~game_over

\* C18: in a session whose ticks have read no jump key, the game is
\* eventually over unless a tick reads a jump key first; until then no
\* cactus has been removed (every cactus ever mounted is still mounted),
\* and the game is over on the initial cactus at the dino's columns.
C18_NoJumpEndsInGameOver ==
    /\ (~jumpSeen) ~> (jumpSeen \/ game_over)
    /\ [](~jumpSeen =>
            /\ Len(cacti) = 1 + (time \div 60)
            /\ cacti[1].age = (IF game_over THEN time - 1 ELSE time)
            /\ game_over =>
                   Overlaps(CactusRegion(cacti[1]), DinoRegion(dino)))

\* C18 witness: the game is over with no jump key ever read: the initial
\* cactus has reached the grounded dino's columns, and the cactus created
\* at time 60 is mounted too.
C18_Witness ==
    /\ ~jumpSeen /\ game_over /\ Len(cacti) = 2
    /\ cacti[1].x = DINO_X + DINO_W - 1 /\ dino.y = GROUND_Y

\* The tick in which the current jump began (the dino is jumping).
JumpStart == time - airTicks + 1

\* C19: a jump that begins at tick 67, 68 or 69 of a session carries the
\* dino clear of the first cactus: the game is not over at any tick up to
\* 82, and tick 82, which finds the cactus at x = -1, removes it.
C19_JumpClearsFirstCactus ==
    (dino.state = "jumping" /\ JumpStart \in 67..69 /\ time <= 82) =>
        /\ ~game_over
        /\ time >= 72 => ~Overlaps(CactusRegion(cacti[1]), DinoRegion(dino))
        /\ time < 82 => cacti[1].x = 80 - time
        /\ time = 82 => (Len(cacti) = 1 /\ cacti[1].age = 82 - 60 + 1)

\* C19 witness: tick 82 has removed the first cactus while the dino, whose
\* jump began at tick 68, is in the air and the game is not over.
C19_Witness ==
    /\ time = 82 /\ ~game_over /\ dino.state = "jumping" /\ JumpStart = 68
    /\ Len(cacti) = 1 /\ cacti[1].x = 57

\* C20: the tick that lands the dino (it finds the dino jumping in its
\* 20th airborne tick) ignores and clears a latched jump key: it leaves the
\* dino running with dy = 0 at y = 10.  A jump begins only in a tick that
\* finds the dino running, so no earlier than the tick after the landing
\* tick, 21 ticks after the tick that began the previous jump.
C20_NoJumpOnLandingTick ==
    [][TickStep =>
          /\ (dino.state = "jumping" /\ airTicks = 20 /\ key \in JumpKeys) =>
                 /\ dino'.state = "running" /\ dino'.dy = 0 /\ dino'.y = 10
                 /\ key' = NoKey /\ airTicks' = 0
          /\ (dino'.state = "jumping" /\ airTicks' = 1) =>
                 (dino.state = "running" /\ airTicks = 0 /\ key \in JumpKeys)
          /\ (dino.state = "jumping" /\ dino'.state = "jumping") =>
                 (airTicks' = airTicks + 1 /\ airTicks' <= 20)]_vars

\* C20 witness: the latest tick read a jump key and left the dino running:
\* it was the landing tick.
C20_Witness ==
    /\ dino.state = "running" /\ lastKey \in JumpKeys /\ key = NoKey
    /\ airTicks = 0 /\ time >= 21 /\ ~game_over
====
